---- MODULE Spec2Model ----
(***************************************************************************)
(* Presence registry, activity tracker, conversation router and            *)
(* read-receipt reconciler of the Socket.IO chat server, as a state        *)
(* machine.  The source file holds two near-duplicate servers; `server`    *)
(* says which one is running (1: lines 1-426, 2: lines 428-1026).          *)
(***************************************************************************)
EXTENDS Integers, Sequences, FiniteSets, TLC

\* ------------------------------------------------------------------ bounds
MaxSockets == 2
MaxRegEvents == 2
MaxObjects == 1
MaxActEvents == 2
MaxSends == 1
MaxFinds == 3
MaxReads == 2
MaxMessages == 2
MaxClears == 1
MaxAlerts == 2
MaxTime == 2
MaxTokens == 2
TicksPerDay == 2
MaxMarkMessages == 3

\* ------------------------------------------------------- values and inputs
Servers == {1, 2}
Sockets == 1..MaxSockets
UserIds == {"u1", "u2"}

\* JavaScript values a client can send where a user id is expected.
UNDEFINED == "<undefined>"
NUM == "<42>"
EMPTY == ""
BLANK == " "
ObjectNames == <<"<object#1>", "<object#2>", "<object#3>">>
ObjectKeys == {ObjectNames[i] : i \in 1..MaxObjects}

PayloadValues == UserIds \cup {EMPTY, BLANK, UNDEFINED, NUM}
\* wrapped = FALSE: the payload is the value v itself; TRUE: it is {userId: v}
Payloads == [wrapped : BOOLEAN, v : PayloadValues]
NoPayload == [wrapped |-> FALSE, v |-> UNDEFINED]

\* typeof x === "string"
IsString(x) == x \in UserIds \cup {EMPTY, BLANK}
\* !x
Falsy(x) == x \in {UNDEFINED, EMPTY}
\* x.trim()
Trim(x) == IF x = BLANK THEN EMPTY ELSE x

VARIABLES
    server,         \* which of the two servers of the file runs
    sockStatus,     \* socket id -> "fresh" | "connected" | "closed"
    sockUserId,     \* socket.userId of each connection
    userSocketMap,  \* Map<userId, Set<socketId>>: DOMAIN is the key set
    regEvents,      \* registerUser / user-online events handled so far
    rooms,          \* socket id -> conversation rooms the socket has joined
    userActivity,   \* socket id -> that connection's Map<userId, {page, activeConversation}>
    actEvents,      \* user:page / user:conversation events handled so far
    reported,       \* history: userId -> activity last reported on the user's own connections
    conversations,  \* store: rows of "conversations", row i has id i
    messages,       \* store: rows of "messages", row i has id i
    userinfo,       \* store: "userinfo", user id -> {firstName, lastName}
    agri_products,  \* store: "agri_products", product id -> {title}
    recv,           \* message id -> socket id -> receiveMessage events delivered
    pushLog,        \* sendNotificationToUser calls made by sendMessage handlers
    sm,             \* sendMessage handler invocations
    fc,             \* findOrCreateConversation handler invocations
    mr,             \* markAsRead handler invocations
    seenLog,        \* messagesSeen events emitted, in order
    cd,             \* clearConversation / deleteConversation handler invocations
    weatherAlertsSent, \* store: rows of "weather_alerts_sent"
    notifications,  \* store: the set of rows of "notifications"
    pushSends,      \* the set of sendPushNotification calls made for weather alerts
    wa,             \* sendWeatherAlert invocations
    now,            \* the clock, in ticks
    lastEvent       \* the last connection, registration or disconnect event
                    \* handled, with the online-status broadcasts it emitted

presenceVars == <<sockStatus, sockUserId, userSocketMap, regEvents>>
activityVars == <<userActivity, actEvents, reported>>
catalogVars == <<userinfo, agri_products>>
storeVars == <<conversations, messages, catalogVars>>
sendVars == <<recv, pushLog, sm>>
convVars == <<fc>>
readVars == <<mr, seenLog>>
clearVars == <<cd>>
alertVars == <<weatherAlertsSent, notifications, pushSends, wa, now>>
vars == <<server, presenceVars, rooms, activityVars, storeVars, sendVars, convVars,
          readVars, clearVars, alertVars, lastEvent>>

\* const activity = userActivity.get(recipientId) || {}
NoConversation == 0
NoActivity == [page |-> UNDEFINED, activeConversation |-> NoConversation]

\* ------------------------------------------------------------ Map helpers
EmptyMap == [k \in {} |-> {}]
MapHas(m, k) == k \in DOMAIN m
MapSet(m, k, val) == [x \in DOMAIN m \cup {k} |-> IF x = k THEN val ELSE m[x]]
MapDelete(m, k) == [x \in DOMAIN m \ {k} |-> m[x]]
\* userSocketMap.get(userId) || new Set()
GetOrNewSet(m, k) == IF MapHas(m, k) THEN m[k] ELSE {}

\* a connection-lifecycle event on socket s, with the io.emit("online-status")
\* broadcasts it caused
EventEmitting(type, s, p, online) ==
    [type |-> type, sock |-> s, payload |-> p, online |-> online]
Event(type, s, p) == EventEmitting(type, s, p, <<>>)

\* ------------------------------------------------------- presence registry
\* An object no live reference points to is as good as a new one.
FreshObjects ==
    {o \in ObjectKeys : ~MapHas(userSocketMap, o) /\ \A s \in Sockets : sockUserId[s] # o}

\* The userId markUserOnline works with.  Server 2:
\*   typeof payload === "string" ? payload : payload?.userId
\* Server 1 takes the payload itself (an object payload is a key by identity).
ExtractUserId(p, obj) ==
    IF server = 2
    THEN IF p.wrapped THEN p.v
         ELSE IF IsString(p.v) THEN p.v ELSE UNDEFINED
    ELSE IF p.wrapped THEN obj ELSE p.v

\* Server 2 line 548: !userId || typeof userId !== "string" || userId.trim() === ""
\* Server 1 has no such check.
RejectsUserId(userId) ==
    server = 2 /\ (Falsy(userId) \/ ~IsString(userId) \/ Trim(userId) = EMPTY)

\* existing.add(socket.id); userSocketMap.set(userId, existing)
AddSocket(m, userId, s) == MapSet(m, userId, GetOrNewSet(m, userId) \cup {s})

\* if (existing.size === 1) io.emit("online-status", {userId, online: true})
OnlineEmit(before, after, userId) ==
    IF Cardinality(after[userId]) = 1
    THEN <<[userId |-> userId, online |-> TRUE]>> ELSE <<>>

\* if (set.size === 0) io.emit("online-status", {userId, online: false, ...})
OfflineEmit(after, userId) ==
    IF MapHas(after, userId) THEN <<>>
    ELSE <<[userId |-> userId, online |-> FALSE]>>

\* set.delete(socket.id); if (set.size === 0) userSocketMap.delete(userId)
\* else userSocketMap.set(userId, set)
\* (mutant: the entry is kept when its set becomes empty)
RemoveSocketKeepEntry(m, userId, s) == MapSet(m, userId, m[userId] \ {s})
RemoveSocket(m, userId, s) ==
    IF m[userId] \ {s} = {}
    THEN MapDelete(m, userId)
    ELSE MapSet(m, userId, m[userId] \ {s})

Connect(s) ==
    /\ sockStatus[s] = "fresh"
    /\ sockStatus' = [sockStatus EXCEPT ![s] = "connected"]
    /\ lastEvent' = Event("connection", s, NoPayload)
    /\ UNCHANGED <<server, sockUserId, userSocketMap, regEvents>>
    /\ UNCHANGED <<rooms, activityVars, storeVars, sendVars, convVars, readVars>>
    /\ UNCHANGED <<clearVars, alertVars>>

\* socket.on("registerUser", markUserOnline); socket.on("user-online", markUserOnline)
MarkUserOnline(s, p) ==
    /\ sockStatus[s] = "connected"
    /\ regEvents < MaxRegEvents
    /\ (server = 1 /\ p.wrapped) => FreshObjects # {}
    /\ LET obj == IF FreshObjects # {} THEN CHOOSE o \in FreshObjects : TRUE ELSE UNDEFINED
           userId == ExtractUserId(p, obj)
           after == AddSocket(userSocketMap, userId, s)
       IN  IF RejectsUserId(userId)
           THEN /\ UNCHANGED <<sockUserId, userSocketMap>>
                /\ lastEvent' = Event("registerUser", s, p)
           ELSE /\ sockUserId' = [sockUserId EXCEPT ![s] = userId]
                /\ userSocketMap' = after
                /\ lastEvent' = EventEmitting("registerUser", s, p,
                                               OnlineEmit(userSocketMap, after, userId))
    /\ regEvents' = regEvents + 1
    /\ UNCHANGED <<server, sockStatus>>
    /\ UNCHANGED <<rooms, activityVars, storeVars, sendVars, convVars, readVars>>
    /\ UNCHANGED <<clearVars, alertVars>>

\* socket.on("disconnect", ...): the transport has already dropped the socket,
\* which has left every room.
Disconnect(s) ==
    /\ sockStatus[s] = "connected"
    /\ sockStatus' = [sockStatus EXCEPT ![s] = "closed"]
    /\ rooms' = [rooms EXCEPT ![s] = {}]
    /\ LET userId == sockUserId[s]
       IN  IF Falsy(userId) \/ ~MapHas(userSocketMap, userId)
           THEN /\ UNCHANGED userSocketMap
                /\ lastEvent' = Event("disconnect", s, NoPayload)
           ELSE LET after == RemoveSocket(userSocketMap, userId, s)
                IN  /\ userSocketMap' = after
                    /\ lastEvent' = EventEmitting("disconnect", s, NoPayload,
                                                   OfflineEmit(after, userId))
    /\ UNCHANGED <<server, sockUserId, regEvents>>
    /\ UNCHANGED <<activityVars, storeVars, sendVars, convVars, readVars>>
    /\ UNCHANGED <<clearVars, alertVars>>

\* The state when the server starts listening: no connection, empty maps.
InitConnections ==
    /\ server \in Servers
    /\ sockStatus = [s \in Sockets |-> "fresh"]
    /\ sockUserId = [s \in Sockets |-> UNDEFINED]
    /\ userSocketMap = EmptyMap
    /\ regEvents = 0
    /\ rooms = [s \in Sockets |-> {}]
    /\ userActivity = [s \in Sockets |-> EmptyMap]
    /\ actEvents = 0
    /\ reported = [u \in UserIds |-> NoActivity]
    /\ recv = <<>>
    /\ pushLog = <<>>
    /\ sm = <<>>
    /\ fc = <<>>
    /\ mr = <<>>
    /\ seenLog = <<>>
    /\ cd = <<>>
    /\ notifications = {}
    /\ pushSends = {}
    /\ wa = <<>>
    /\ now = 0
    /\ lastEvent = Event("none", 0, NoPayload)

\* no row in userinfo and agri_products
NoCatalog == userinfo = EmptyMap /\ agri_products = EmptyMap

InitPresence ==
    /\ InitConnections
    /\ NoCatalog
    /\ weatherAlertsSent = <<>>
    /\ conversations = <<>>
    /\ messages = <<>>

NextPresence ==
    \/ \E s \in Sockets : Connect(s)
    \/ \E s \in Sockets, p \in Payloads : MarkUserOnline(s, p)
    \/ \E s \in Sockets : Disconnect(s)

SpecPresence == InitPresence /\ [][NextPresence]_vars

\* ------------------------------------------------- claims on the presence map
\* a step that handles a connection, registration or disconnect event
PresenceStep == sockStatus' # sockStatus \/ regEvents' # regEvents
NewOnlineEmits == IF PresenceStep THEN lastEvent'.online ELSE <<>>
CountIn(seq, e) == Cardinality({i \in DOMAIN seq : seq[i] = e})

\* C2: in every step, an online-status {online: true} broadcast for user u is
\* emitted exactly once if u's connection set goes from empty to non-empty and
\* not at all otherwise; likewise {online: false} for non-empty to empty.
C2_OnlineStatusOncePerEdge ==
    [][\A u \in UserIds :
         LET was == GetOrNewSet(userSocketMap, u) # {}
             is == GetOrNewSet(userSocketMap', u) # {}
         IN  /\ CountIn(NewOnlineEmits, [userId |-> u, online |-> TRUE])
                  = (IF ~was /\ is THEN 1 ELSE 0)
             /\ CountIn(NewOnlineEmits, [userId |-> u, online |-> FALSE])
                  = (IF was /\ ~is THEN 1 ELSE 0)]_vars

\* C5: a connection id is a member of the connection set of at most one user.
C5_SocketInAtMostOneEntry ==
    \A s \in Sockets : \A k1, k2 \in DOMAIN userSocketMap :
        (s \in userSocketMap[k1] /\ s \in userSocketMap[k2]) => k1 = k2

\* C6: a key has an entry in the presence map iff its connection set is
\* non-empty; the map never holds an entry with an empty set.
C6_EntryIffNonEmptySet ==
    \A k \in DOMAIN userSocketMap : userSocketMap[k] # {}

\* C6 witness: a disconnect has just emptied and removed one user's entry
\* while another entry is still held.
C6_Witness_EntryRemoved ==
    /\ lastEvent.type = "disconnect"
    /\ sockUserId[lastEvent.sock] \in UserIds
    /\ ~MapHas(userSocketMap, sockUserId[lastEvent.sock])
    /\ userSocketMap # EmptyMap

\* The user id a registration event carries is missing, empty, blank or not a
\* string.
MalformedUserId(p) == p.v \notin UserIds

\* C7: a registration event with a malformed user id leaves the presence map
\* and the connection's remembered owner unchanged and emits no online-status.
C7_MalformedRegistrationRejected ==
    [][(regEvents' # regEvents /\ MalformedUserId(lastEvent'.payload))
         => (UNCHANGED <<userSocketMap, sockUserId>> /\ lastEvent'.online = <<>>)]_vars

\* The second server alone does reject them.
C7_Server2Rejects ==
    [][(server = 2 /\ regEvents' # regEvents
          /\ MalformedUserId(lastEvent'.payload))
         => (UNCHANGED <<userSocketMap, sockUserId>> /\ lastEvent'.online = <<>>)]_vars

\* ------------------------------------------------------ rooms and activity
Pages == {"chats", "home"}
\* conversation ids a client may name: none (0), the stored rows, one absent row
ConvInputs == 0..(Len(conversations) + 1)

\* socket.on("join_conversation", ...): socket.join(conversation_id)
JoinConversation(s, c) ==
    /\ sockStatus[s] = "connected"
    /\ rooms' = [rooms EXCEPT ![s] = @ \cup {c}]
    /\ UNCHANGED <<server, presenceVars, activityVars, storeVars, sendVars, convVars,
                 readVars, lastEvent>>
    /\ UNCHANGED <<clearVars, alertVars>>

\* (mutant: the entry is replaced by a new object on every event)
NewActivity(m, userId) == NoActivity
\* userActivity.get(userId) || {}
GetActivity(m, userId) == IF MapHas(m, userId) THEN m[userId] ELSE NoActivity

\* socket.on("user:page", ...): the Map is the one of this connection
UserPage(s, userId, page) ==
    /\ sockStatus[s] = "connected"
    /\ actEvents < MaxActEvents
    /\ userActivity' = [userActivity EXCEPT ![s] =
           MapSet(@, userId, [GetActivity(@, userId) EXCEPT !.page = page])]
    /\ reported' = IF sockUserId[s] = userId
                   THEN [reported EXCEPT ![userId].page = page] ELSE reported
    /\ actEvents' = actEvents + 1
    /\ UNCHANGED <<server, presenceVars, rooms, storeVars, sendVars, convVars, readVars, lastEvent>>
    /\ UNCHANGED <<clearVars, alertVars>>

\* socket.on("user:conversation", ...): active ? conversationId : null
UserConversation(s, userId, conversationId, active) ==
    /\ sockStatus[s] = "connected"
    /\ actEvents < MaxActEvents
    /\ LET a == IF active THEN conversationId ELSE NoConversation
       IN  /\ userActivity' = [userActivity EXCEPT ![s] =
                  MapSet(@, userId, [GetActivity(@, userId) EXCEPT !.activeConversation = a])]
           /\ reported' = IF sockUserId[s] = userId
                          THEN [reported EXCEPT ![userId].activeConversation = a]
                          ELSE reported
    /\ actEvents' = actEvents + 1
    /\ UNCHANGED <<server, presenceVars, rooms, storeVars, sendVars, convVars, readVars, lastEvent>>
    /\ UNCHANGED <<clearVars, alertVars>>

\* ------------------------------------------------------------ sendMessage
Contents == {"Hello", EMPTY}
SendData == [sender_id : UserIds \cup {EMPTY}, conversation_id : ConvInputs,
             content : Contents]

\* (mutant: content is not looked at)
MissingIds(data) == Falsy(data.sender_id) \/ data.conversation_id = 0
\* if (!sender_id || !conversation_id || !content) return
MissingFields(data) ==
    Falsy(data.sender_id) \/ data.conversation_id = 0 \/ Falsy(data.content)

NewMessage(data) ==
    [conversation_id |-> data.conversation_id, sender_id |-> data.sender_id,
     content |-> data.content, read_at |-> 0, deleted_at |-> 0]

\* what is recorded of a handler invocation: its input, the message row it
\* inserted (0: none), where it stands, and what it found and decided
NewSend(s, data, msg, pc) ==
    [sock |-> s, sender_id |-> data.sender_id, conversation_id |-> data.conversation_id,
     content |-> data.content, msg |-> msg, pc |-> pc, recipientId |-> UNDEFINED,
     shouldSend |-> FALSE, convoError |-> FALSE, pushThrew |-> FALSE]

\* Lines 606-623: validation, then the insert; the handler is suspended on it.
\* An event with a missing field is logged and the handler returns.
SendMessage(s, data) ==
    /\ sockStatus[s] = "connected"
    /\ Len(sm) < MaxSends
    /\ IF MissingFields(data)
       THEN /\ sm' = Append(sm, NewSend(s, data, 0, "rejected"))
            /\ UNCHANGED <<storeVars, recv, pushLog>>
       ELSE /\ \E ok \in BOOLEAN :
                 IF ok /\ data.conversation_id \in DOMAIN conversations
                 THEN /\ messages' = Append(messages, NewMessage(data))
                      /\ recv' = Append(recv, [x \in Sockets |-> 0])
                      /\ sm' = Append(sm, NewSend(s, data, Len(messages) + 1, "inserted"))
                      /\ UNCHANGED <<conversations, catalogVars, pushLog>>
                 ELSE /\ sm' = Append(sm, NewSend(s, data, 0, "failed"))
                      /\ UNCHANGED <<storeVars, recv, pushLog>>
    /\ UNCHANGED <<server, presenceVars, rooms, activityVars, convVars, readVars, lastEvent>>
    /\ UNCHANGED <<clearVars, alertVars>>

\* const recipientId = sender_id === user1_id ? user2_id : user1_id
RecipientOf(sender, convo) ==
    IF sender = convo.user1_id THEN convo.user2_id ELSE convo.user1_id

\* io.to(conversation_id): the connected sockets that joined the room
RoomMembers(c) == {s \in Sockets : sockStatus[s] = "connected" /\ c \in rooms[s]}

\* userSocketMap.get(recipientId), each reached through io.to(sId)
DirectTargets(recipientId, sender) ==
    IF MapHas(userSocketMap, recipientId) /\ recipientId # sender
    THEN {s \in userSocketMap[recipientId] : sockStatus[s] = "connected"}
    ELSE {}

\* Lines 636-647: one emit to the room, then one emit per recipient socket.
Deliveries(c, recipientId, sender) ==
    [s \in Sockets |-> (IF s \in RoomMembers(c) THEN 1 ELSE 0)
                         + (IF s \in DirectTargets(recipientId, sender) THEN 1 ELSE 0)]

\* Lines 649-659, read from the Map of the connection the event arrived on.
ShouldSendNotification(sock, recipientId, sender, c) ==
    LET recipientOnline == MapHas(userSocketMap, recipientId)
        activity == GetActivity(userActivity[sock], recipientId)
        isInChatsPage == activity.page = "chats"
        isReadingConversation == activity.activeConversation = c
    IN  /\ ~Falsy(recipientId) /\ recipientId # sender
        /\ (~recipientOnline \/ ~isInChatsPage \/ ~isReadingConversation)

\* (mutant: convoError is not looked at, the handler goes on)
ConvoErrorIgnored(ok) == FALSE
\* if (convoError) throw convoError
ConvoErrorThrows(ok) == ~ok

\* Lines 625-661: the participants arrive, and in the same turn the message is
\* relayed and the push decision taken; on convoError the handler's catch
\* logs and the handler ends.
SendRelay(h) ==
    /\ h \in DOMAIN sm
    /\ sm[h].pc = "inserted"
    /\ \E ok \in BOOLEAN :
         IF ~ConvoErrorThrows(ok)
         THEN LET c == sm[h].conversation_id
                  sender == sm[h].sender_id
                  recipientId == RecipientOf(sender, conversations[c])
                  d == Deliveries(c, recipientId, sender)
                  push == ShouldSendNotification(sm[h].sock, recipientId, sender, c)
              IN  /\ recv' = [recv EXCEPT ![sm[h].msg] = [s \in Sockets |-> @[s] + d[s]]]
                  /\ sm' = [sm EXCEPT ![h].pc = IF push THEN "push" ELSE "done",
                                      ![h].recipientId = recipientId,
                                      ![h].shouldSend = push,
                                      ![h].convoError = ~ok]
         ELSE /\ sm' = [sm EXCEPT ![h].pc = "failed", ![h].convoError = TRUE]
              /\ UNCHANGED recv
    /\ UNCHANGED <<server, presenceVars, rooms, activityVars, storeVars, pushLog, convVars,
                 readVars, lastEvent>>
    /\ UNCHANGED <<clearVars, alertVars>>

\* (mutant: no inner try/catch, the exception reaches the handler's catch)
AfterPushUncaught(threw) == IF threw THEN "failed" ELSE "done"
\* Lines 712-714: catch (notifError) logs, and the handler goes on to its end.
AfterPush(threw) == "done"

\* product_id absent from the payload, null in the store
NoProduct == 0
ProductIds == {NoProduct, 1}

\* data: null of a lookup
NoRow == [data |-> UNDEFINED]
\* .eq("id", id).single(): the row, or null when there is none or the
\* lookup reports an error
Single(table, id, answered) ==
    IF answered /\ id \in DOMAIN table THEN table[id] ELSE NoRow

NamePresent(x) == ~Falsy(x)
\* `${senderInfo.firstName || ""} ${senderInfo.lastName || ""}`.trim(), as
\* the sequence of its words
FullName(senderInfo) ==
    SelectSeq(<<senderInfo.firstName, senderInfo.lastName>>, NamePresent)

\* (mutant: an empty name is used as it is)
SenderNameAsStored(senderInfo) ==
    IF senderInfo = NoRow THEN <<"Someone">> ELSE FullName(senderInfo)
\* senderInfo ? fullName || "Someone" : "Someone"
SenderName(senderInfo) ==
    IF senderInfo = NoRow THEN <<"Someone">>
    ELSE IF FullName(senderInfo) = <<>> THEN <<"Someone">> ELSE FullName(senderInfo)

\* Lines 681-696: the title and the body, as sequences of their parts
\* (contents are shorter than the 100 characters the body is cut at)
NotificationTitle(senderName, productId, product) ==
    IF productId # NoProduct /\ product # NoRow
    THEN <<"New inquiry about", product.title>>
    ELSE <<"New message from">> \o senderName
NotificationBody(senderName, productId, product, content) ==
    IF productId # NoProduct /\ product # NoRow
    THEN senderName \o <<"sent a message">>
    ELSE <<content>>

\* type: conversation?.product_id ? "product_inquiry" : "chat_message"
NotificationType(productId) ==
    IF productId # NoProduct THEN "product_inquiry" ELSE "chat_message"

\* (mutant: the push decision is taken again when the lookups have returned)
DispatchIfStillWarranted(h, threw) ==
    /\ ~threw
    /\ ShouldSendNotification(sm[h].sock, sm[h].recipientId, sm[h].sender_id,
                              sm[h].conversation_id)
\* shouldSendNotification is a const of the invocation: once inside the if,
\* sendNotificationToUser is called unless a statement before it threw
DispatchCalled(h, threw) == ~threw

\* Lines 661-716: the awaited lookups of the sender, the conversation's
\* product_id and the product, then sendNotificationToUser, whose result is
\* not looked at; an exception on the way is caught and logged.
SendPush(h) ==
    /\ h \in DOMAIN sm
    /\ sm[h].pc = "push"
    /\ \E threw, senderAnswered, convoAnswered, productAnswered \in BOOLEAN :
         LET senderInfo == Single(userinfo, sm[h].sender_id, senderAnswered)
             senderName == SenderName(senderInfo)
             productId == IF convoAnswered
                          THEN conversations[sm[h].conversation_id].product_id
                          ELSE NoProduct
             product == IF productId # NoProduct
                        THEN Single(agri_products, productId, productAnswered)
                        ELSE NoRow
             call == [userId |-> sm[h].recipientId, msg |-> sm[h].msg,
                      title |-> NotificationTitle(senderName, productId, product),
                      body |-> NotificationBody(senderName, productId, product,
                                                sm[h].content),
                      type |-> NotificationType(productId),
                      senderInfo |-> senderInfo, productId |-> productId,
                      product |-> product]
         IN  /\ pushLog' = IF DispatchCalled(h, threw) THEN Append(pushLog, call)
                           ELSE pushLog
             /\ sm' = [sm EXCEPT ![h].pc = AfterPush(threw), ![h].pushThrew = threw]
    /\ UNCHANGED <<server, presenceVars, rooms, activityVars, storeVars, recv, convVars,
                 readVars, lastEvent>>
    /\ UNCHANGED <<clearVars, alertVars>>

\* One conversation between u1 and u2 is in the store.
InitSend ==
    /\ InitConnections
    /\ NoCatalog
    /\ weatherAlertsSent = <<>>
    /\ conversations = <<[user1_id |-> "u1", user2_id |-> "u2", product_id |-> 0,
                          deleted_at |-> 0]>>
    /\ messages = <<>>

ValidPayloads == {p \in Payloads : ~p.wrapped /\ p.v \in UserIds}

\* Message relay: connections, presence, rooms and sendMessage handlers.
NextRelay ==
    \/ \E s \in Sockets : Connect(s)
    \/ \E s \in Sockets, p \in ValidPayloads : MarkUserOnline(s, p)
    \/ \E s \in Sockets : Disconnect(s)
    \/ \E s \in Sockets : JoinConversation(s, 1)
    \/ \E s \in Sockets, data \in SendData : SendMessage(s, data)
    \/ \E h \in 1..MaxSends : SendRelay(h)
    \/ \E h \in 1..MaxSends : SendPush(h)

SpecRelay == InitSend /\ [][NextRelay]_vars

\* Push decision: connections, presence, activity and sendMessage handlers.
\* Clients report the "chats" page and an opened conversation; a page or a
\* conversation never reported stands for any other.
NextPush ==
    \/ \E s \in Sockets : Connect(s)
    \/ \E s \in Sockets, p \in ValidPayloads : MarkUserOnline(s, p)
    \/ \E s \in Sockets : Disconnect(s)
    \/ \E s \in Sockets, u \in UserIds : UserPage(s, u, "chats")
    \/ \E s \in Sockets, u \in UserIds, c \in DOMAIN conversations :
         UserConversation(s, u, c, TRUE)
    \/ \E s \in Sockets, data \in SendData : SendMessage(s, data)
    \/ \E h \in 1..MaxSends : SendRelay(h)
    \/ \E h \in 1..MaxSends : SendPush(h)

SpecPush == InitSend /\ [][NextPush]_vars

\* ---------------------------------------------------- claims on sendMessage
\* the step in which handler invocation h relays its message and decides;
\* the claims are stated for a sendMessage that arrives on a connection
\* registered for its sender_id, while no connection is registered twice
RelayStep(h) ==
    /\ sm[h].pc = "inserted" /\ sm'[h].pc \in {"push", "done"}
    /\ sockUserId[sm[h].sock] = sm[h].sender_id
    /\ C5_SocketInAtMostOneEntry

\* the live connections registered for user u
LiveConnectionsOf(u) ==
    {s \in GetOrNewSet(userSocketMap, u) : sockStatus[s] = "connected"}

\* C1: when a sendMessage relays its message, every connection subscribed to
\* the conversation room, and every other live connection of the non-sender
\* participant, receives receiveMessage for it exactly once.
C1_DeliveredExactlyOnce ==
    [][\A h \in DOMAIN sm : RelayStep(h) =>
         LET c == sm[h].conversation_id
             r == sm'[h].recipientId
             targets == RoomMembers(c) \cup
                        (IF r # sm[h].sender_id THEN LiveConnectionsOf(r) ELSE {})
         IN  \A s \in targets : recv'[sm[h].msg][s] = 1]_vars

\* The push policy of the specification, on the activity the recipient
\* reported on the recipient's own connections.
PushWarranted(r, sender, c) ==
    /\ r # sender
    /\ \/ LiveConnectionsOf(r) = {}
       \/ reported[r].page # "chats"
       \/ reported[r].activeConversation # c

\* C3: the push decision a sendMessage takes equals the push policy.
C3_PushDecisionIsPolicy ==
    [][\A h \in DOMAIN sm : RelayStep(h) =>
         sm'[h].shouldSend
           = PushWarranted(sm'[h].recipientId, sm[h].sender_id, sm[h].conversation_id)]_vars

\* C4: when the recipient has a live registered connection and last reported,
\* on that user's own connection, this conversation as the active one (taken
\* with the chats page reported too, the case most favourable to the code),
\* the sendMessage decides against a push, dispatches none, and still
\* delivers the message live to the recipient.
C4_NoPushWhileReading ==
    [][\A h \in DOMAIN sm : RelayStep(h) =>
         LET c == sm[h].conversation_id
             r == sm'[h].recipientId
         IN  (/\ r # sm[h].sender_id
              /\ LiveConnectionsOf(r) # {}
              /\ reported[r].activeConversation = c
              /\ reported[r].page = "chats")
             => /\ ~sm'[h].shouldSend
                /\ sm'[h].pc = "done"
                /\ \A s \in LiveConnectionsOf(r) : recv'[sm[h].msg][s] >= 1]_vars

\* ------------------------------------------------ findOrCreateConversation
\* a conversation is asked for between two different users, in either order
FindPayloads ==
    {p \in [user1_id : UserIds, user2_id : UserIds, product_id : ProductIds] :
        p.user1_id # p.user2_id}

\* callback({conversation_id: id}) and callback({error: true})
AckId(id) == [error |-> FALSE, conversation_id |-> id]
AckError == [error |-> TRUE, conversation_id |-> 0]

\* and(user1_id.eq.A,user2_id.eq.B),and(user1_id.eq.B,user2_id.eq.A)
OrFilter(row, user1_id, user2_id) ==
    \/ row.user1_id = user1_id /\ row.user2_id = user2_id
    \/ row.user1_id = user2_id /\ row.user2_id = user1_id

\* The rows the lookup selects.  Server 2 adds .is("deleted_at", null).
Matching(user1_id, user2_id) ==
    {i \in DOMAIN conversations :
        /\ OrFilter(conversations[i], user1_id, user2_id)
        /\ server = 2 => conversations[i].deleted_at = 0}

NewConversation(p) ==
    [user1_id |-> p.user1_id, user2_id |-> p.user2_id, product_id |-> p.product_id,
     deleted_at |-> 0]

\* The handler is called and sends its lookup; `after` and `deletedAtCall`
\* are history: the invocations that had completed, and the conversations
\* that carried a deleted_at, when this one was called.
FindOrCreateConversation(s, payload) ==
    /\ sockStatus[s] = "connected"
    /\ Len(fc) < MaxFinds
    /\ fc' = Append(fc, [user1_id |-> payload.user1_id, user2_id |-> payload.user2_id,
                         product_id |-> payload.product_id, pc |-> "find",
                         existing |-> 0, created |-> 0, acks |-> <<>>,
                         storeError |-> FALSE,
                         deletedAtCall |-> {i \in DOMAIN conversations :
                                               conversations[i].deleted_at # 0},
                         after |-> {h \in DOMAIN fc : fc[h].pc = "done"}])
    /\ UNCHANGED <<server, presenceVars, rooms, activityVars, storeVars, sendVars,
                   readVars, lastEvent>>
    /\ UNCHANGED <<clearVars, alertVars>>

\* The lookup returns.  No code of the repository writes last_message_at, so
\* .order("last_message_at").limit(1) yields whichever matching row the store
\* puts first.
FcFind(h) ==
    /\ h \in DOMAIN fc
    /\ fc[h].pc = "find"
    /\ \E findErr \in BOOLEAN :
         IF findErr
         THEN fc' = [fc EXCEPT ![h].pc = "done", ![h].storeError = TRUE,
                               ![h].acks = Append(@, AckError)]
         ELSE LET m == Matching(fc[h].user1_id, fc[h].user2_id)
              IN  IF m = {}
                  THEN fc' = [fc EXCEPT ![h].pc = "insert"]
                  ELSE \E e \in m :
                         IF /\ fc[h].product_id # NoProduct
                            /\ conversations[e].product_id # fc[h].product_id
                         THEN fc' = [fc EXCEPT ![h].pc = "update", ![h].existing = e]
                         ELSE fc' = [fc EXCEPT ![h].pc = "done", ![h].existing = e,
                                               ![h].acks = Append(@, AckId(e))]
    /\ UNCHANGED <<server, presenceVars, rooms, activityVars, storeVars, sendVars,
                   readVars, lastEvent>>
    /\ UNCHANGED <<clearVars, alertVars>>

\* The product_id update returns (its result is not looked at), then the ack.
FcUpdate(h) ==
    /\ h \in DOMAIN fc
    /\ fc[h].pc = "update"
    /\ \E ok \in BOOLEAN :
         /\ conversations' = IF ok
                             THEN [conversations EXCEPT ![fc[h].existing].product_id =
                                                           fc[h].product_id]
                             ELSE conversations
         /\ fc' = [fc EXCEPT ![h].pc = "done", ![h].storeError = ~ok,
                             ![h].acks = Append(@, AckId(fc[h].existing))]
    /\ UNCHANGED <<server, presenceVars, rooms, activityVars, messages, catalogVars, sendVars,
                   readVars, lastEvent>>
    /\ UNCHANGED <<clearVars, alertVars>>

\* The insert returns: the created row, or createErr.
FcInsert(h) ==
    /\ h \in DOMAIN fc
    /\ fc[h].pc = "insert"
    /\ \E createErr \in BOOLEAN :
         IF createErr
         THEN /\ fc' = [fc EXCEPT ![h].pc = "done", ![h].storeError = TRUE,
                                    ![h].acks = Append(@, AckError)]
              /\ UNCHANGED conversations
         ELSE LET id == Len(conversations) + 1
              IN  /\ conversations' = Append(conversations, NewConversation(fc[h]))
                  /\ fc' = [fc EXCEPT ![h].pc = "done", ![h].created = id,
                                      ![h].acks = Append(@, AckId(id))]
    /\ UNCHANGED <<server, presenceVars, rooms, activityVars, messages, catalogVars, sendVars,
                   readVars, lastEvent>>
    /\ UNCHANGED <<clearVars, alertVars>>

\* Conversation router: connections and findOrCreateConversation handlers on
\* an initially empty store.
NextConv ==
    \/ \E s \in Sockets : Connect(s)
    \/ \E s \in Sockets, payload \in FindPayloads : FindOrCreateConversation(s, payload)
    \/ \E h \in 1..MaxFinds : FcFind(h)
    \/ \E h \in 1..MaxFinds : FcUpdate(h)
    \/ \E h \in 1..MaxFinds : FcInsert(h)

SpecConv == InitPresence /\ [][NextConv]_vars

\* -------------------------------------- claims on findOrCreateConversation
PairOf(row) == {row.user1_id, row.user2_id}

\* C8: in every reachable state of the store, at most one conversation
\* without a soft-delete timestamp exists per unordered participant pair.
C8_OneLiveConversationPerPair ==
    \A i, j \in DOMAIN conversations :
        (/\ i # j
         /\ conversations[i].deleted_at = 0
         /\ conversations[j].deleted_at = 0)
        => PairOf(conversations[i]) # PairOf(conversations[j])

\* invocation h has acknowledged a conversation id
Acked(h) == fc[h].pc = "done" /\ fc[h].acks # <<>> /\ ~fc[h].acks[1].error

\* C9: when findOrCreateConversation(A,B) has completed with a conversation
\* id and findOrCreateConversation(B,A) is called afterwards, the second call
\* creates no conversation and, when it acknowledges an id, it is the same id.
C9_SequentialCallsAgree ==
    \A h1, h2 \in DOMAIN fc :
        (/\ h1 \in fc[h2].after
         /\ Acked(h1)
         /\ fc[h2].pc = "done"
         /\ fc[h2].user1_id = fc[h1].user2_id
         /\ fc[h2].user2_id = fc[h1].user1_id)
        => /\ fc[h2].created = 0
           /\ Acked(h2) => fc[h2].acks[1].conversation_id = fc[h1].acks[1].conversation_id

\* -------------------------------------------------------------- markAsRead
\* (mutant: the update and the count without .eq("conversation_id", ...))
InAnyConversation(row, conversation_id) == TRUE
\* .eq("conversation_id", conversation_id)
InConversation(row, conversation_id) == row.conversation_id = conversation_id

\* (mutant: the update and the count without .is("read_at", null))
FromOthers(msgs, conversation_id, reader_id) ==
    {i \in DOMAIN msgs : /\ InConversation(msgs[i], conversation_id)
                         /\ msgs[i].sender_id # reader_id}

\* .eq("conversation_id", c).neq("sender_id", reader).is("read_at", null)
UnreadFromOthers(msgs, conversation_id, reader_id) ==
    {i \in DOMAIN msgs : /\ InConversation(msgs[i], conversation_id)
                         /\ msgs[i].sender_id # reader_id
                         /\ msgs[i].read_at = 0}

\* The handler is called and sends the update, which carries
\* read_at: new Date().toISOString(); the n-th call stamps n.  `after` is
\* history: the invocations that had completed when this one was called.
MarkAsRead(s, conversation_id, reader_id) ==
    /\ sockStatus[s] = "connected"
    /\ Len(mr) < MaxReads
    /\ mr' = Append(mr, [conversation_id |-> conversation_id,
                         reader_id |-> reader_id, pc |-> "update",
                         now |-> Len(mr) + 1, updated |-> {}, countError |-> FALSE,
                         after |-> {h \in DOMAIN mr : mr[h].pc \in {"done", "failed"}}])
    /\ UNCHANGED <<server, presenceVars, rooms, activityVars, storeVars, sendVars,
                   convVars, seenLog, lastEvent>>
    /\ UNCHANGED <<clearVars, alertVars>>

\* The update returns: the rows it changed, or an error, which is thrown and
\* logged by the catch.
MrUpdate(h) ==
    /\ h \in DOMAIN mr
    /\ mr[h].pc = "update"
    /\ \E error \in BOOLEAN :
         IF error
         THEN /\ mr' = [mr EXCEPT ![h].pc = "failed"]
              /\ UNCHANGED messages
         ELSE LET upd == UnreadFromOthers(messages, mr[h].conversation_id, mr[h].reader_id)
              IN  /\ messages' = [i \in DOMAIN messages |->
                                    IF i \in upd
                                    THEN [messages[i] EXCEPT !.read_at = mr[h].now]
                                    ELSE messages[i]]
                  /\ mr' = [mr EXCEPT ![h].pc = "count", ![h].updated = upd]
    /\ UNCHANGED <<server, presenceVars, rooms, activityVars, conversations, catalogVars,
                   sendVars, convVars, seenLog, lastEvent>>
    /\ UNCHANGED <<clearVars, alertVars>>

\* senderIds.forEach: userSocketMap.get(sid), each socket through io.to(sId)
SenderSockets(updated) ==
    {s \in Sockets : /\ sockStatus[s] = "connected"
                     /\ \E i \in updated :
                          s \in GetOrNewSet(userSocketMap, messages[i].sender_id)}

\* One turn of messagesSeen emits: to the room, and to sockets directly.
SeenEmit(h, seen_message_ids, unread_count, direct) ==
    [h |-> h, conversation_id |-> mr[h].conversation_id, reader_id |-> mr[h].reader_id,
     seen_message_ids |-> seen_message_ids, unread_count |-> unread_count,
     room |-> RoomMembers(mr[h].conversation_id), direct |-> direct]

\* The count returns.  With no row updated, a count error is logged and the
\* event carries unreadCount ?? 0; with rows updated, a count error is thrown.
MrCount(h) ==
    /\ h \in DOMAIN mr
    /\ mr[h].pc = "count"
    /\ \E countError \in BOOLEAN :
         LET unreadCount == Cardinality(UnreadFromOthers(messages, mr[h].conversation_id,
                                                          mr[h].reader_id))
         IN  IF mr[h].updated = {}
             THEN /\ seenLog' = Append(seenLog,
                        SeenEmit(h, {}, IF countError THEN 0 ELSE unreadCount, {}))
                  /\ mr' = [mr EXCEPT ![h].pc = "done", ![h].countError = countError]
             ELSE IF countError
                  THEN /\ mr' = [mr EXCEPT ![h].pc = "failed", ![h].countError = TRUE]
                       /\ UNCHANGED seenLog
                  ELSE /\ seenLog' = Append(seenLog,
                             SeenEmit(h, mr[h].updated, unreadCount,
                                      SenderSockets(mr[h].updated)))
                       /\ mr' = [mr EXCEPT ![h].pc = "done"]
    /\ UNCHANGED <<server, presenceVars, rooms, activityVars, storeVars, sendVars,
                   convVars, lastEvent>>
    /\ UNCHANGED <<clearVars, alertVars>>

\* The stores a server can start on: one conversation between u1 and u2 with
\* up to MaxMessages unread messages.
InitialMessages ==
    UNION {[1..n -> [conversation_id : {1}, sender_id : UserIds, content : {"Hello"},
                     read_at : {0}, deleted_at : {0}]] : n \in 0..MaxMessages}

InitRead ==
    /\ InitConnections
    /\ NoCatalog
    /\ weatherAlertsSent = <<>>
    /\ conversations = <<[user1_id |-> "u1", user2_id |-> "u2", product_id |-> 0,
                          deleted_at |-> 0]>>
    /\ messages \in InitialMessages

\* Read-receipt reconciler: connections, presence, rooms and markAsRead
\* handlers.
NextRead ==
    \/ \E s \in Sockets : Connect(s)
    \/ \E s \in Sockets, p \in ValidPayloads : MarkUserOnline(s, p)
    \/ \E s \in Sockets : JoinConversation(s, 1)
    \/ \E s \in Sockets, c \in 1..(Len(conversations) + 1), r \in UserIds :
         MarkAsRead(s, c, r)
    \/ \E h \in 1..MaxReads : MrUpdate(h)
    \/ \E h \in 1..MaxReads : MrCount(h)

SpecRead == InitRead /\ [][NextRead]_vars

\* ---------------------------------------------------- claims on markAsRead
\* the step in which invocation h, its update done, gets the count back
MrCountStep(h) == mr[h].pc = "count" /\ mr'[h].pc # "count"

\* C10: every markAsRead whose update succeeded emits one messagesSeen to the
\* conversation room, carrying the number of messages from others still
\* unread in the store (0 where the count query failed), whether or not a
\* message was updated.
C10_SeenEmittedOnEveryCall ==
    [][\A h \in DOMAIN mr : MrCountStep(h) =>
         /\ Len(seenLog') = Len(seenLog) + 1
         /\ LET e == seenLog'[Len(seenLog')]
            IN  /\ e.h = h
                /\ e.conversation_id = mr[h].conversation_id
                /\ e.reader_id = mr[h].reader_id
                /\ e.seen_message_ids = mr[h].updated
                /\ e.unread_count =
                     IF mr'[h].countError THEN 0
                     ELSE Cardinality(UnreadFromOthers(messages', mr[h].conversation_id,
                                                       mr[h].reader_id))]_vars

\* invocation h got its update back without error
UpdateSucceeded(h) ==
    \/ mr[h].pc \in {"count", "done"}
    \/ mr[h].pc = "failed" /\ mr[h].countError

\* invocation h is over, its update having succeeded
ReadCompleted(h) == UpdateSucceeded(h) /\ mr[h].pc # "count"

\* the messagesSeen events invocation h emitted
SeenBy(h) == {i \in DOMAIN seenLog : seenLog[i].h = h}

\* C11: when markAsRead(c, r) has completed and markAsRead(c, r) is called
\* again, no message being sent in between, the second call updates no
\* message and reports no seen id, and both calls report the same unread
\* count: the number of messages of c from others than r still unread.
C11_MarkAsReadIdempotent ==
    \A h1, h2 \in DOMAIN mr :
        (/\ h1 \in mr[h2].after
         /\ mr[h1].conversation_id = mr[h2].conversation_id
         /\ mr[h1].reader_id = mr[h2].reader_id
         /\ ReadCompleted(h1) /\ ReadCompleted(h2))
        => /\ mr[h2].updated = {}
           /\ SeenBy(h1) # {} /\ SeenBy(h2) # {}
           /\ \A i \in SeenBy(h1) \cup SeenBy(h2) :
                seenLog[i].unread_count =
                    Cardinality(UnreadFromOthers(messages, mr[h2].conversation_id,
                                                 mr[h2].reader_id))
           /\ \A i \in SeenBy(h2) : seenLog[i].seen_message_ids = {}

\* The same with both count queries answering: what is left of C11 beside the
\* missing report of C10.
C11_IdempotentWhenCountsAnswer ==
    \A h1, h2 \in DOMAIN mr :
        (/\ h1 \in mr[h2].after
         /\ mr[h1].conversation_id = mr[h2].conversation_id
         /\ mr[h1].reader_id = mr[h2].reader_id
         /\ mr[h1].pc = "done" /\ mr[h2].pc = "done")
        => /\ mr[h2].updated = {}
           /\ SeenBy(h1) # {} /\ SeenBy(h2) # {}
           /\ \A i \in SeenBy(h1) \cup SeenBy(h2) :
                seenLog[i].unread_count =
                    Cardinality(UnreadFromOthers(messages, mr[h2].conversation_id,
                                                 mr[h2].reader_id))
           /\ \A i \in SeenBy(h2) : seenLog[i].seen_message_ids = {}

\* the live connections of the original senders of the messages h updated
LiveSenderConnections(h) ==
    UNION {LiveConnectionsOf(messages[i].sender_id) : i \in mr[h].updated}

\* C12: when a markAsRead has updated at least one message, every live
\* connection of each original sender of the updated messages receives a
\* messagesSeen with the updated ids and the unread count, in the room or not.
C12_SendersNotifiedDirectly ==
    [][\A h \in DOMAIN mr : (MrCountStep(h) /\ mr[h].updated # {}) =>
         \A s \in LiveSenderConnections(h) :
            /\ Len(seenLog') = Len(seenLog) + 1
            /\ LET e == seenLog'[Len(seenLog')]
               IN  /\ e.h = h
                   /\ e.seen_message_ids = mr[h].updated
                   /\ e.unread_count =
                        Cardinality(UnreadFromOthers(messages, mr[h].conversation_id,
                                                     mr[h].reader_id))
                   /\ s \in e.room \cup e.direct]_vars

\* The same for the invocations whose count query answers.
C12_NotifiedWhenCountAnswers ==
    [][\A h \in DOMAIN mr :
         (MrCountStep(h) /\ mr[h].updated # {} /\ mr'[h].pc = "done") =>
         LET e == seenLog'[Len(seenLog')]
         IN  /\ Len(seenLog') = Len(seenLog) + 1
             /\ e.h = h
             /\ e.seen_message_ids = mr[h].updated
             /\ LiveSenderConnections(h) \subseteq e.direct]_vars

\* ------------------------------------ clearConversation, deleteConversation
\* users that act on a conversation: its two participants and a third user
Actors == UserIds \cup {"u3"}

AckSuccess == [error |-> FALSE, message |-> "success"]
AckFailure(message) == [error |-> TRUE, message |-> message]

NewClear(kind, conversation_id, user_id, pc, acks) ==
    [kind |-> kind, conversation_id |-> conversation_id, user_id |-> user_id,
     pc |-> pc, acks |-> acks, emits |-> <<>>]

\* socket.on("clearConversation" | "deleteConversation"): the missing-field
\* check, then the conversation fetch.  Only the second server has them.
ClearOrDelete(s, kind, conversation_id, user_id) ==
    /\ server = 2
    /\ sockStatus[s] = "connected"
    /\ Len(cd) < MaxClears
    /\ cd' = Append(cd,
           IF conversation_id = 0 \/ Falsy(user_id)
           THEN NewClear(kind, conversation_id, user_id, "done",
                         <<AckFailure("Missing conversation_id or user_id")>>)
           ELSE NewClear(kind, conversation_id, user_id, "fetch", <<>>))
    /\ UNCHANGED <<server, presenceVars, rooms, activityVars, storeVars, sendVars,
                   convVars, readVars, alertVars, lastEvent>>

\* user_id !== user1_id && user_id !== user2_id
Unauthorized(user_id, convo) == user_id # convo.user1_id /\ user_id # convo.user2_id

\* The conversation fetch returns: not found, unauthorized, or the handler
\* goes on to its first update.
CdFetch(h) ==
    /\ h \in DOMAIN cd
    /\ cd[h].pc = "fetch"
    /\ \E convoErr \in BOOLEAN :
         IF convoErr \/ cd[h].conversation_id \notin DOMAIN conversations
         THEN cd' = [cd EXCEPT ![h].pc = "done",
                               ![h].acks = Append(@, AckFailure("Conversation not found"))]
         ELSE IF Unauthorized(cd[h].user_id, conversations[cd[h].conversation_id])
              THEN cd' = [cd EXCEPT ![h].pc = "done",
                                    ![h].acks = Append(@, AckFailure("Unauthorized"))]
              ELSE cd' = [cd EXCEPT ![h].pc =
                              IF cd[h].kind = "clear" THEN "messages" ELSE "conversation"]
    /\ UNCHANGED <<server, presenceVars, rooms, activityVars, storeVars, sendVars,
                   convVars, readVars, alertVars, lastEvent>>

\* update({deleted_at: now}).eq("id", conversation_id) returns; convErr is
\* thrown to the catch.  Invocation h stamps MaxReads + h.
CdConversation(h) ==
    /\ h \in DOMAIN cd
    /\ cd[h].pc = "conversation"
    /\ \E convErr \in BOOLEAN :
         IF convErr
         THEN /\ cd' = [cd EXCEPT ![h].pc = "done",
                                  ![h].acks = Append(@, AckFailure("Internal error"))]
              /\ UNCHANGED conversations
         ELSE /\ conversations' = [conversations EXCEPT
                                      ![cd[h].conversation_id].deleted_at = MaxReads + h]
              /\ cd' = [cd EXCEPT ![h].pc = "messages"]
    /\ UNCHANGED <<server, presenceVars, rooms, activityVars, messages, catalogVars, sendVars,
                   convVars, readVars, alertVars, lastEvent>>

\* [user1_id, user2_id].forEach: userSocketMap.get(uid), each through io.to(sId)
ParticipantSockets(convo) ==
    {s \in Sockets : /\ sockStatus[s] = "connected"
                     /\ \/ s \in GetOrNewSet(userSocketMap, convo.user1_id)
                        \/ s \in GetOrNewSet(userSocketMap, convo.user2_id)}

\* update({deleted_at: now}).eq("conversation_id", conversation_id) returns;
\* then conversationCleared / conversationDeleted goes to the room and to both
\* participants, and the ack.
CdMessages(h) ==
    /\ h \in DOMAIN cd
    /\ cd[h].pc = "messages"
    /\ \E updErr \in BOOLEAN :
         IF updErr
         THEN /\ cd' = [cd EXCEPT ![h].pc = "done",
                                  ![h].acks = Append(@, AckFailure("Internal error"))]
              /\ UNCHANGED messages
         ELSE LET c == cd[h].conversation_id
                  upd == {i \in DOMAIN messages : messages[i].conversation_id = c}
              IN  /\ messages' = [i \in DOMAIN messages |->
                                    IF i \in upd
                                    THEN [messages[i] EXCEPT !.deleted_at = MaxReads + h]
                                    ELSE messages[i]]
                  /\ cd' = [cd EXCEPT
                       ![h].pc = "done",
                       ![h].emits = Append(@, [conversation_id |-> c,
                                               by_user_id |-> cd[h].user_id,
                                               cleared_count |-> Cardinality(upd),
                                               room |-> RoomMembers(c),
                                               direct |-> ParticipantSockets(conversations[c])]),
                       ![h].acks = Append(@, AckSuccess)]
    /\ UNCHANGED <<server, presenceVars, rooms, activityVars, conversations, catalogVars,
                   sendVars, convVars, readVars, alertVars, lastEvent>>

\* what a client may send as the acting user of a conversation-scoped event
ActorSendData == [sender_id : Actors, conversation_id : {1}, content : {"Hello"}]

\* Message store: the four handlers that write messages, their events
\* arriving on one connection.
StoreSockets == {1}
NextStore ==
    \/ \E s \in StoreSockets : Connect(s)
    \/ \E s \in StoreSockets, data \in ActorSendData : SendMessage(s, data)
    \/ \E h \in 1..MaxSends : SendRelay(h)
    \/ \E h \in 1..MaxSends : SendPush(h)
    \/ \E s \in StoreSockets, r \in Actors : MarkAsRead(s, 1, r)
    \/ \E h \in 1..MaxReads : MrUpdate(h)
    \/ \E h \in 1..MaxReads : MrCount(h)
    \/ \E s \in StoreSockets, kind \in {"clear", "delete"}, c \in ConvInputs,
          u \in Actors \cup {EMPTY} : ClearOrDelete(s, kind, c, u)
    \/ \E h \in 1..MaxClears : CdFetch(h)
    \/ \E h \in 1..MaxClears : CdConversation(h)
    \/ \E h \in 1..MaxClears : CdMessages(h)

SpecStore == InitSend /\ [][NextStore]_vars

\* ------------------------------------------- claims on the message store
\* C13: over every interleaving of sendMessage, markAsRead, clearConversation
\* and deleteConversation handlers, the read timestamp of a message, once
\* set, is never cleared and never changed.
C13_ReadAtSetOnce ==
    [][\A i \in DOMAIN messages :
         messages[i].read_at # 0 =>
            /\ i \in DOMAIN messages'
            /\ messages'[i].read_at = messages[i].read_at]_vars

\* C13 witness: a message was read by the first markAsRead, a second
\* markAsRead of the same reader has had its update done since, and the
\* message was soft-deleted: its read timestamp is still the first one.
C13_Witness_ReadThenReadAgain ==
    \E i \in DOMAIN messages :
        /\ messages[i].read_at = 1
        /\ messages[i].deleted_at # 0
        /\ Len(mr) = 2
        /\ mr[2].reader_id = mr[1].reader_id
        /\ mr[2].pc = "done"

\* the acting user is not one of the two participants of the conversation
NonParticipant(user_id, conversation_id) ==
    /\ conversation_id \in DOMAIN conversations
    /\ user_id \notin PairOf(conversations[conversation_id])

\* the invocations of a handler that take a step: new ones and changed ones
Stepping(old, new) == {h \in DOMAIN new : h \notin DOMAIN old \/ new[h] # old[h]}

\* C19 for clearConversation and deleteConversation: a step of an invocation
\* whose user_id is not a participant changes no row and emits no event.
ClearDeleteRejects ==
    \A h \in Stepping(cd, cd') :
        NonParticipant(cd'[h].user_id, cd'[h].conversation_id)
        => (UNCHANGED storeVars /\ cd'[h].emits = <<>>)

\* C19 for sendMessage: likewise for a sender_id that is not a participant.
SendMessageRejects ==
    \A h \in Stepping(sm, sm') :
        NonParticipant(sm'[h].sender_id, sm'[h].conversation_id)
        => UNCHANGED <<storeVars, recv, pushLog>>

\* C19 for markAsRead: likewise for a reader_id that is not a participant.
MarkAsReadRejects ==
    \A h \in Stepping(mr, mr') :
        NonParticipant(mr'[h].reader_id, mr'[h].conversation_id)
        => UNCHANGED <<storeVars, seenLog>>

\* C19: every conversation-scoped operation whose acting user is not one of
\* the conversation's two participants is rejected: it changes no row of the
\* store and emits no event (sendMessage, markAsRead, clearConversation,
\* deleteConversation).
C19_NonParticipantRejected ==
    [][SendMessageRejects /\ MarkAsReadRejects /\ ClearDeleteRejects]_vars

\* clearConversation and deleteConversation alone do reject.
C19_ClearAndDeleteReject == [][ClearDeleteRejects]_vars

\* ------------------------------------------------------- sendWeatherAlert
\* canSend: count < 3
DailyLimit == 3

\* today.setHours(0, 0, 0, 0): the start of the day of instant t
TodayStart(t) == t - (t % TicksPerDay)

\* userId of a sendWeatherAlert call: a user, or none
AlertUsers == {"u1", EMPTY}

\* .from("weather_alerts_sent").select("id").eq("user_id", userId)
\*   .gte("sent_at", todayStart)
AlertsSince(rows, userId, todayStart) ==
    {i \in DOMAIN rows : rows[i].user_id = userId /\ rows[i].sent_at >= todayStart}

\* (mutant: the gate lets the call through at the limit)
CanSendAtLimit(read, rows, userId, todayStart) ==
    IF read # "ok"
    THEN [canSend |-> TRUE, count |-> 0]
    ELSE LET count == Cardinality(AlertsSince(rows, userId, todayStart))
         IN  [canSend |-> count <= DailyLimit, count |-> count]

\* (mutant: the gate denies when the read fails)
CanSendFailClosed(read, rows, userId, todayStart) ==
    IF read # "ok"
    THEN [canSend |-> FALSE, count |-> 0]
    ELSE LET count == Cardinality(AlertsSince(rows, userId, todayStart))
         IN  [canSend |-> count < DailyLimit, count |-> count]

\* canSendWeatherAlert, on the outcome of its store read: the rows, an error
\* result, or an exception.
CanSendWeatherAlert(read, rows, userId, todayStart) ==
    IF read # "ok"
    THEN [canSend |-> TRUE, count |-> 0]
    ELSE LET count == Cardinality(AlertsSince(rows, userId, todayStart))
         IN  [canSend |-> count < DailyLimit, count |-> count]

\* (mutant: the limit is not looked at)
NeverDenies(gate) == FALSE
\* if (!canSend)
GateDenies(gate) == ~gate.canSend

\* The results sendWeatherAlert returns.
LimitReached == [success |-> FALSE, error |-> "Daily limit reached", limitReached |-> TRUE]
UserIdRequired == [success |-> FALSE, error |-> "User ID required"]
Skipped == [success |-> FALSE, error |-> "Notifications disabled by user", skipped |-> TRUE]
TokenError == [success |-> FALSE, error |-> "error.message"]
NoTokens == [success |-> FALSE, error |-> "No tokens found", sent |-> 0]
Sent(sent, failed, total) ==
    [success |-> TRUE, sent |-> sent, failed |-> failed, total |-> total]
\* catch (error) of sendNotificationToUser
Caught == [success |-> FALSE, error |-> "error.message"]
Pending == [pending |-> TRUE]

\* sendWeatherAlert(userId, alert) is called: canSendWeatherAlert takes the
\* time and sends its read.
SendWeatherAlert(userId) ==
    /\ Len(wa) < MaxAlerts
    /\ wa' = Append(wa, [userId |-> userId, pc |-> "gate", calledAt |-> now,
                         read |-> "pending", canSend |-> FALSE, count |-> 0,
                         tokenLookup |-> FALSE, found |-> "pending", tokens |-> 0,
                         recordAt |-> 0,
                         result |-> Pending])
    /\ UNCHANGED <<weatherAlertsSent, notifications, pushSends, now>>
    /\ UNCHANGED <<server, presenceVars, rooms, activityVars, storeVars, sendVars,
                   convVars, readVars, clearVars, lastEvent>>

\* The gate's read returns.  Denied: the limit-reached result.  Allowed:
\* sendNotificationToUser is called, which returns at once without a userId
\* and otherwise asks for the user's preference.
WaGate(h) ==
    /\ h \in DOMAIN wa
    /\ wa[h].pc = "gate"
    /\ \E read \in {"ok", "error", "throws"} :
         LET gate == CanSendWeatherAlert(read, weatherAlertsSent, wa[h].userId,
                                         TodayStart(wa[h].calledAt))
             to == IF GateDenies(gate) THEN [pc |-> "done", result |-> LimitReached]
                   ELSE IF Falsy(wa[h].userId)
                        THEN [pc |-> "done", result |-> UserIdRequired]
                        ELSE [pc |-> "pref", result |-> Pending]
         IN  wa' = [wa EXCEPT ![h].read = read, ![h].canSend = gate.canSend,
                              ![h].count = gate.count, ![h].pc = to.pc,
                              ![h].result = to.result]
    /\ UNCHANGED <<weatherAlertsSent, notifications, pushSends, now>>
    /\ UNCHANGED <<server, presenceVars, rooms, activityVars, storeVars, sendVars,
                   convVars, readVars, clearVars, lastEvent>>

\* getUserById returns: notifications_enabled true, false or not set, an
\* error or an exception; only an explicit false stops the notification.
\* Otherwise the notification row is sent to the store.
NuPref(h) ==
    /\ h \in DOMAIN wa
    /\ wa[h].pc = "pref"
    /\ \E pref \in {"true", "false", "unset", "error", "throws"} :
         wa' = IF pref = "false"
               THEN [wa EXCEPT ![h].pc = "done", ![h].result = Skipped]
               ELSE [wa EXCEPT ![h].pc = "save"]
    /\ UNCHANGED <<weatherAlertsSent, notifications, pushSends, now>>
    /\ UNCHANGED <<server, presenceVars, rooms, activityVars, storeVars, sendVars,
                   convVars, readVars, clearVars, lastEvent>>

\* The insert into notifications returns (its outcome is not looked at), and
\* the token lookup is sent.
NuSave(h) ==
    /\ h \in DOMAIN wa
    /\ wa[h].pc = "save"
    /\ \E saved \in BOOLEAN :
         notifications' = IF saved
                          THEN notifications \cup {[user_id |-> wa[h].userId, by |-> h]}
                          ELSE notifications
    /\ wa' = [wa EXCEPT ![h].pc = "tokens", ![h].tokenLookup = TRUE]
    /\ UNCHANGED <<weatherAlertsSent, pushSends, now>>
    /\ UNCHANGED <<server, presenceVars, rooms, activityVars, storeVars, sendVars,
                   convVars, readVars, clearVars, lastEvent>>

\* (mutant: an empty token list is passed on)
EmptyListPassedOn(n) == FALSE
\* if (!tokens || tokens.length === 0)
NoTokenList(n) == n = 0

\* The token lookup returns: an error, no token, or n tokens, which go to
\* sendPushNotificationToMultiple.
NuTokens(h) ==
    /\ h \in DOMAIN wa
    /\ wa[h].pc = "tokens"
    /\ \/ wa' = [wa EXCEPT ![h].pc = "done", ![h].found = "error",
                            ![h].result = TokenError]
       \/ \E n \in 0..MaxTokens :
            wa' = IF NoTokenList(n)
                  THEN [wa EXCEPT ![h].pc = "done", ![h].found = "rows",
                                  ![h].result = NoTokens]
                  ELSE [wa EXCEPT ![h].pc = "push", ![h].found = "rows",
                                  ![h].tokens = n]
    /\ UNCHANGED <<weatherAlertsSent, notifications, pushSends, now>>
    /\ UNCHANGED <<server, presenceVars, rooms, activityVars, storeVars, sendVars,
                   convVars, readVars, clearVars, lastEvent>>

\* (mutant: Promise.all, one rejection rejects the whole)
FulfilledAllOrNone(results) ==
    IF \A t \in DOMAIN results : results[t] THEN Len(results) ELSE 0
\* results.filter((r) => r.status === "fulfilled").length
Fulfilled(results) == Cardinality({t \in DOMAIN results : results[t]})
\* results.filter((r) => r.status === "rejected").length
Rejected(results) == Cardinality({t \in DOMAIN results : ~results[t]})

\* Promise.allSettled of the per-token sends returns.  sendNotificationToUser
\* returns success: true with the counts, and sendWeatherAlert, on
\* result.success, calls recordWeatherAlertSent, which stamps sent_at.
\* sendPushNotificationToMultiple throws on an empty list, which
\* sendNotificationToUser catches.
NuPush(h) ==
    /\ h \in DOMAIN wa
    /\ wa[h].pc = "push"
    /\ \E results \in [1..wa[h].tokens -> BOOLEAN] :
         LET n == wa[h].tokens
             result == IF n = 0 THEN Caught
                       ELSE Sent(Fulfilled(results), Rejected(results), n)
         IN  /\ pushSends' = pushSends \cup
                    {[by |-> h, token |-> t, fulfilled |-> results[t]] : t \in 1..n}
             /\ wa' = [wa EXCEPT ![h].result = result, ![h].recordAt = now,
                                 ![h].pc = IF result.success THEN "record" ELSE "done"]
    /\ UNCHANGED <<weatherAlertsSent, notifications, now>>
    /\ UNCHANGED <<server, presenceVars, rooms, activityVars, storeVars, sendVars,
                   convVars, readVars, clearVars, lastEvent>>

\* what the insert of recordWeatherAlertSent can come to: the row is in, the
\* store answers with an error, or the call throws
InsertOutcomes == {"ok", "error", "throws"}

\* (mutant: recordWeatherAlertSent lets a failure out to its caller)
RecordFailureThrown(outcome) == outcome # "ok"
\* recordWeatherAlertSent: if (error) console.error(...); catch (error)
\* console.error(...): nothing leaves the function
RecordThrows(outcome) == FALSE

\* The insert of recordWeatherAlertSent returns; a failure is logged only,
\* and sendWeatherAlert returns the result of sendNotificationToUser (an
\* exception would reach its catch).
WaRecord(h) ==
    /\ h \in DOMAIN wa
    /\ wa[h].pc = "record"
    /\ \E outcome \in InsertOutcomes :
         /\ weatherAlertsSent' =
               IF outcome = "ok"
               THEN Append(weatherAlertsSent, [user_id |-> wa[h].userId,
                                               sent_at |-> wa[h].recordAt, by |-> h])
               ELSE weatherAlertsSent
         /\ wa' = [wa EXCEPT ![h].pc = "done",
                             ![h].result = IF RecordThrows(outcome) THEN Caught ELSE @]
    /\ UNCHANGED <<notifications, pushSends, now>>
    /\ UNCHANGED <<server, presenceVars, rooms, activityVars, storeVars, sendVars,
                   convVars, readVars, clearVars, lastEvent>>

\* time passes
Tick ==
    /\ now < MaxTime
    /\ now' = now + 1
    /\ UNCHANGED <<weatherAlertsSent, notifications, pushSends, wa>>
    /\ UNCHANGED <<server, presenceVars, rooms, activityVars, storeVars, sendVars,
                   convVars, readVars, clearVars, lastEvent>>

\* n rows recorded for a user at instant 0 by earlier calls
EarlierAlerts(userId, n) == [i \in 1..n |-> [user_id |-> userId, sent_at |-> 0, by |-> 0]]

\* The log a server can start on: none, or DailyLimit - 1 or more, rows of u1,
\* and none or DailyLimit rows of u2.
InitAlert ==
    /\ InitConnections
    /\ NoCatalog
    /\ server = 2
    /\ conversations = <<>>
    /\ messages = <<>>
    /\ \E n1 \in {0, DailyLimit - 1, DailyLimit}, n2 \in {0, DailyLimit} :
         weatherAlertsSent = EarlierAlerts("u2", n2) \o EarlierAlerts("u1", n1)

NextAlert ==
    \/ \E userId \in AlertUsers : SendWeatherAlert(userId)
    \/ \E h \in 1..MaxAlerts : WaGate(h)
    \/ \E h \in 1..MaxAlerts : NuPref(h)
    \/ \E h \in 1..MaxAlerts : NuSave(h)
    \/ \E h \in 1..MaxAlerts : NuTokens(h)
    \/ \E h \in 1..MaxAlerts : NuPush(h)
    \/ \E h \in 1..MaxAlerts : WaRecord(h)
    \/ Tick

SpecAlert == InitAlert /\ [][NextAlert]_vars

\* --------------------------------------------- claims on sendWeatherAlert
\* the day instant t falls in
DayOf(t) == t \div TicksPerDay

\* the rows recorded for user u on day d
RowsOfDay(u, d) ==
    {i \in DOMAIN weatherAlertsSent :
        weatherAlertsSent[i].user_id = u /\ DayOf(weatherAlertsSent[i].sent_at) = d}

\* C14: for every user and day, at most 3 alert-sent rows are recorded for
\* the user within the day, for every interleaving of sendWeatherAlert calls
\* (taken with every gate read answering, the case most favourable to the
\* code).
C14_AtMostThreeRowsPerDay ==
    (\A h \in DOMAIN wa : wa[h].read \notin {"error", "throws"})
    => \A u \in UserIds, d \in 0..DayOf(MaxTime) :
          Cardinality(RowsOfDay(u, d)) <= DailyLimit

\* C14 for every outcome of the gate's read as well.
C14_AtMostThreeRowsWhateverTheRead ==
    \A u \in UserIds, d \in 0..DayOf(MaxTime) :
        Cardinality(RowsOfDay(u, d)) <= DailyLimit

\* the step in which invocation h gets the answer of its gate
GateStep(h) == wa[h].pc = "gate" /\ wa'[h].pc # "gate"

\* the rows recorded for user u on day d or later
RowsSinceDay(u, d) ==
    {i \in DOMAIN weatherAlertsSent :
        weatherAlertsSent[i].user_id = u /\ DayOf(weatherAlertsSent[i].sent_at) >= d}

\* C15: when the store read succeeds, the gate allows exactly when fewer than
\* 3 rows of the user have sent_at at or after the start of the day of the
\* call, whatever rows other users or earlier days have.
C15_AllowedIffUnderLimitToday ==
    [][\A h \in DOMAIN wa : (GateStep(h) /\ wa'[h].read = "ok") =>
         LET today == RowsSinceDay(wa[h].userId, DayOf(wa[h].calledAt))
         IN  /\ wa'[h].canSend = (Cardinality(today) < 3)
             /\ wa'[h].count = Cardinality(today)]_vars

\* C15 witness: with 3 rows of u1 recorded on day 0, a call of day 0 was
\* denied and a call made after the day boundary was allowed.
C15_Witness_DeniedThenNextDayAllowed ==
    /\ Cardinality(RowsOfDay("u1", 0)) = 3
    /\ \E h1, h2 \in DOMAIN wa :
         /\ wa[h1].userId = "u1" /\ wa[h1].read = "ok" /\ ~wa[h1].canSend
         /\ DayOf(wa[h1].calledAt) = 0
         /\ wa[h2].userId = "u1" /\ wa[h2].read = "ok" /\ wa[h2].canSend
         /\ DayOf(wa[h2].calledAt) = 1

\* C16: when the gate's store read returns an error or throws, the gate
\* answers allowed with count 0 and sendWeatherAlert goes on to
\* sendNotificationToUser.
C16_GateFailsOpen ==
    [][\A h \in DOMAIN wa : (GateStep(h) /\ wa'[h].read \in {"error", "throws"}) =>
         /\ wa'[h].canSend /\ wa'[h].count = 0
         /\ wa'[h].result # LimitReached
         /\ wa[h].userId \in UserIds => wa'[h].pc = "pref"]_vars

\* C16 witness: with 3 rows recorded today for u1, a call whose gate read
\* failed has gone on to send a push.
C16_Witness_FailedReadThenPush ==
    \E h \in DOMAIN wa :
        /\ wa[h].read \in {"error", "throws"}
        /\ Cardinality(RowsOfDay("u1", DayOf(wa[h].calledAt))) >= 3
        /\ \E p \in pushSends : p.by = h

\* what invocation h did to deliver
DeliveryBy(h) ==
    [notifications |-> {n \in notifications : n.by = h},
     tokenLookup |-> wa[h].tokenLookup,
     pushSends |-> {p \in pushSends : p.by = h},
     rows |-> {i \in DOMAIN weatherAlertsSent : weatherAlertsSent[i].by = h}]
NoDelivery == [notifications |-> {}, tokenLookup |-> FALSE, pushSends |-> {}, rows |-> {}]

\* C17: when the gate denies, sendWeatherAlert returns the limit-reached
\* result and stores no notification, looks up no token, sends no push and
\* appends no log row.
C17_DeniedMeansNoDelivery ==
    \A h \in DOMAIN wa :
        (wa[h].pc # "gate" /\ ~wa[h].canSend)
        => /\ wa[h].pc = "done"
           /\ wa[h].result = LimitReached
           /\ DeliveryBy(h) = NoDelivery

\* C17 witness: one call was denied while another call delivered.
C17_Witness_DeniedCall ==
    \E h1, h2 \in DOMAIN wa :
        /\ wa[h1].pc = "done" /\ ~wa[h1].canSend
        /\ wa[h2].canSend /\ \E p \in pushSends : p.by = h2

\* C18: an alert-sent row is appended by an invocation only when at least one
\* of its per-token push sends succeeded.
C18_RowOnlyAfterDelivery ==
    \A i \in DOMAIN weatherAlertsSent :
        weatherAlertsSent[i].by # 0
        => \E p \in pushSends : p.by = weatherAlertsSent[i].by /\ p.fulfilled

\* ------------------------------------------ claims on the push of sendMessage
\* C20: once a sendMessage has relayed its message, nothing in its push step
\* (a lookup failing, the dispatch throwing or reporting failure) undoes
\* that: the message row stays as inserted, the receiveMessage events
\* delivered stand, and the handler ends without failing.
C20_PushFailureLeavesRelay ==
    [][\A h \in DOMAIN sm : sm[h].pc \in {"push", "done"} =>
         /\ sm'[h].pc \in {"push", "done"}
         /\ sm[h].msg \in DOMAIN messages'
         /\ messages'[sm[h].msg] = messages[sm[h].msg]
         /\ \A s \in Sockets : recv'[sm[h].msg][s] >= recv[sm[h].msg][s]]_vars

\* C20 witness: a message was delivered live, its push step threw, and the
\* handler is done.
C20_Witness_PushThrewAfterRelay ==
    \E h \in DOMAIN sm :
        /\ sm[h].pc = "done" /\ sm[h].shouldSend
        /\ pushLog = <<>>
        /\ \E s \in Sockets : recv[sm[h].msg][s] >= 1

\* ------------------------------------ claims on the failures of sendMessage
\* the step in which a sendMessage event arrives and invocation h begins
ArrivalStep(h) == h \notin DOMAIN sm /\ h \in DOMAIN sm'

\* C21: a sendMessage event whose sender_id, conversation_id or content is
\* missing or empty persists no message, emits no receiveMessage, dispatches
\* no push and leaves the presence map unchanged, and its invocation does
\* nothing afterwards.
C21_MissingFieldsRejected ==
    [][\A h \in 1..MaxSends :
         /\ (/\ ArrivalStep(h)
             /\ \/ sm'[h].sender_id \in {UNDEFINED, EMPTY}
                \/ sm'[h].conversation_id = NoConversation
                \/ sm'[h].content \in {UNDEFINED, EMPTY})
            => /\ UNCHANGED <<conversations, messages, recv, pushLog, userSocketMap>>
               /\ sm'[h].pc = "rejected"
         /\ (h \in DOMAIN sm /\ sm[h].pc = "rejected") => sm'[h] = sm[h]]_vars

\* C21 witness: an event with both ids and an empty content was rejected
\* while a registered connection was in the conversation's room.
C21_Witness_EmptyContentRejected ==
    \E h \in DOMAIN sm :
        /\ sm[h].pc = "rejected"
        /\ sm[h].sender_id \in UserIds /\ sm[h].conversation_id = 1
        /\ sm[h].content = EMPTY
        /\ \E s \in RoomMembers(1) : sockUserId[s] \in UserIds
        /\ messages = <<>>

\* C27: when the participant lookup of a sendMessage fails after its insert,
\* the invocation emits no receiveMessage and dispatches no push, changes
\* nothing of presence, rooms and activity, ends there, and the inserted
\* message row stays in the store as it was inserted.
C27_ConvoErrorConfined ==
    [][\A h \in DOMAIN sm :
         /\ (sm[h].pc = "inserted" /\ sm'[h].convoError)
            => /\ sm'[h].pc = "failed"
               /\ UNCHANGED <<recv, pushLog, messages, presenceVars, rooms, activityVars>>
         /\ sm[h].convoError
            => /\ sm'[h] = sm[h]
               /\ sm[h].msg \in DOMAIN messages'
               /\ messages'[sm[h].msg] = messages[sm[h].msg]
               /\ recv'[sm[h].msg] = [s \in Sockets |-> 0]
               /\ \A i \in DOMAIN pushLog' : pushLog'[i].msg # sm[h].msg]_vars

\* C27 witness: the lookup failed for a message whose recipient had a
\* registered connection in the room, and a registration was handled after
\* the failure.
C27_Witness_LookupFailedThenRegistration ==
    \E h \in DOMAIN sm :
        /\ sm[h].convoError /\ sm[h].pc = "failed"
        /\ messages[sm[h].msg].content = "Hello"
        /\ \E s \in RoomMembers(sm[h].conversation_id) :
             /\ sockUserId[s] \in UserIds /\ sockUserId[s] # sm[h].sender_id
        /\ lastEvent.type = "registerUser"
        /\ lastEvent.sock # sm[h].sock

\* --------------------------------------- claims on sendNotificationToUser
\* the per-token sends invocation h made
SendsBy(h) == {p \in pushSends : p.by = h}

\* C22: when the token lookup of sendNotificationToUser found n >= 1 tokens
\* and the sends have settled, one send was made for each of the n tokens,
\* whichever of them failed, and the result has total = n,
\* sent + failed = total, and sent = the number of sends that succeeded.
C22_OnePushPerToken ==
    \A h \in DOMAIN wa :
        (wa[h].tokens >= 1 /\ wa[h].pc \in {"record", "done"})
        => /\ {p.token : p \in SendsBy(h)} = 1..wa[h].tokens
           /\ Cardinality(SendsBy(h)) = wa[h].tokens
           /\ wa[h].result.total = wa[h].tokens
           /\ wa[h].result.sent + wa[h].result.failed = wa[h].result.total
           /\ wa[h].result.sent = Cardinality({p \in SendsBy(h) : p.fulfilled})

\* C22 witness: of two sends the first failed and the second succeeded.
C22_Witness_FirstFailedSecondSent ==
    \E h \in DOMAIN wa :
        /\ wa[h].tokens = 2 /\ wa[h].pc \in {"record", "done"}
        /\ [by |-> h, token |-> 1, fulfilled |-> FALSE] \in pushSends
        /\ [by |-> h, token |-> 2, fulfilled |-> TRUE] \in pushSends
        /\ wa[h].result.sent = 1 /\ wa[h].result.failed = 1

NextActivity ==
    \/ \E s \in Sockets : Connect(s)
    \/ \E s \in Sockets, p \in ValidPayloads : MarkUserOnline(s, p)
    \/ \E s \in Sockets, u \in UserIds, page \in Pages : UserPage(s, u, page)
    \/ \E s \in Sockets, u \in UserIds, c \in DOMAIN conversations, active \in BOOLEAN :
         UserConversation(s, u, c, active)

SpecActivity == InitSend /\ [][NextActivity]_vars

\* the entry of user u in the Map of connection s, before the step
EntryBefore(s, u) ==
    IF u \in DOMAIN userActivity[s] THEN userActivity[s][u]
    ELSE [page |-> UNDEFINED, activeConversation |-> NoConversation]

\* every activity entry but the one of user u on connection s is as it was
OtherEntriesUnchanged(s, u) ==
    \A t \in Sockets, v \in UserIds :
        (t # s \/ v # u)
        => /\ (v \in DOMAIN userActivity'[t]) = (v \in DOMAIN userActivity[t])
           /\ v \in DOMAIN userActivity[t] => userActivity'[t][v] = userActivity[t][v]

\* C25: a user:page event sets the page of the named user's entry and leaves
\* its active conversation as it was; a user:conversation event sets the
\* active conversation (the given id when active, none otherwise) and leaves
\* the page as it was; neither changes another entry or the presence map.
C25_ActivityUpdatesAreIndependent ==
    [][/\ \A s \in Sockets, u \in UserIds, page \in Pages :
            UserPage(s, u, page)
            => /\ userActivity'[s][u].page = page
               /\ userActivity'[s][u].activeConversation
                    = EntryBefore(s, u).activeConversation
               /\ OtherEntriesUnchanged(s, u)
               /\ UNCHANGED userSocketMap
       /\ \A s \in Sockets, u \in UserIds, c \in DOMAIN conversations, active \in BOOLEAN :
            UserConversation(s, u, c, active)
            => /\ userActivity'[s][u].activeConversation
                    = (IF active THEN c ELSE NoConversation)
               /\ userActivity'[s][u].page = EntryBefore(s, u).page
               /\ OtherEntriesUnchanged(s, u)
               /\ UNCHANGED userSocketMap]_vars

\* C25 witness: on one connection one user:page and one user:conversation
\* event of a registered user were handled, and the entry holds both.
C25_Witness_PageAndConversationBothKept ==
    \E s \in Sockets, u \in UserIds :
        /\ actEvents = 2
        /\ u \in DOMAIN userActivity[s]
        /\ userActivity[s][u] = [page |-> "home", activeConversation |-> 1]
        /\ u \in DOMAIN userSocketMap

\* ------------------------------------ claims on the composition of the push
\* the names a userinfo row may hold (null: absent)
SenderInfos ==
    {[firstName |-> f, lastName |-> l] : f \in {UNDEFINED, "Asha"}, l \in {UNDEFINED, "Rao"}}

\* A store with the conversation of u1 and u2, with or without a product
\* context, with or without the product's row, and with or without a row of
\* u1 in userinfo.
InitNotify ==
    /\ InitConnections
    /\ weatherAlertsSent = <<>>
    /\ \E p \in ProductIds :
         conversations = <<[user1_id |-> "u1", user2_id |-> "u2", product_id |-> p,
                            deleted_at |-> 0]>>
    /\ messages = <<>>
    /\ userinfo \in {EmptyMap} \cup {[u \in {"u1"} |-> i] : i \in SenderInfos}
    /\ agri_products \in {EmptyMap, [p \in {1} |-> [title |-> "Tomatoes"]]}

\* Push composition: connections and sendMessage handlers.
NextNotify ==
    \/ \E s \in Sockets : Connect(s)
    \/ \E s \in Sockets, data \in SendData : SendMessage(s, data)
    \/ \E h \in 1..MaxSends : SendRelay(h)
    \/ \E h \in 1..MaxSends : SendPush(h)

SpecNotify == InitNotify /\ [][NextNotify]_vars

\* the title of the product inquiry and of the plain message
IsInquiryTitle(title) == title[1] = "New inquiry about"
IsMessageTitle(title) == title[1] = "New message from"

DecisionStep(h) == sm[h].pc = "inserted" /\ sm'[h].pc \in {"push", "done"}

\* C24: when a sendMessage of A decides while the recipient B has no live
\* connection, it decides for the push and goes on to dispatch it, and the
\* message is in the store with a null read timestamp.
C24_OfflineRecipientIsPushed ==
    [][\A h \in DOMAIN sm :
         (/\ DecisionStep(h)
          /\ sm'[h].recipientId # sm[h].sender_id
          /\ LiveConnectionsOf(sm'[h].recipientId) = {})
         => /\ sm'[h].shouldSend /\ sm'[h].pc = "push"
            /\ messages'[sm[h].msg].read_at = 0]_vars

\* C24 holds when the recipient has no entry in the presence map.
C24_PushedWhenNoPresenceEntry ==
    [][\A h \in DOMAIN sm :
         (/\ DecisionStep(h)
          /\ sm'[h].recipientId # sm[h].sender_id
          /\ ~MapHas(userSocketMap, sm'[h].recipientId))
         => /\ sm'[h].shouldSend /\ sm'[h].pc = "push"
            /\ messages'[sm[h].msg].read_at = 0]_vars

\* the push calls invocation h made
CallsBy(h) == {i \in DOMAIN pushLog : pushLog[i].msg = sm[h].msg}

\* C30: an invocation of sendMessage calls sendNotificationToUser at most
\* once; its decision, once taken, does not change; it makes the call when
\* the decision was for the push, whatever presence and activity have become
\* meanwhile (unless a statement before the call threw), and makes none when
\* the decision was against.
C30_DispatchFixedByDecision ==
    [][\A h \in DOMAIN sm :
         /\ sm[h].pc \in {"push", "done"}
            => /\ sm'[h].shouldSend = sm[h].shouldSend
               /\ sm'[h].recipientId = sm[h].recipientId
         /\ sm'[h].msg # 0 => Cardinality(CallsBy(h)') <= 1
         /\ sm'[h].pc = "push" => sm'[h].shouldSend /\ CallsBy(h)' = {}
         /\ sm'[h].pc = "done"
            => (CallsBy(h)' # {}) = (sm'[h].shouldSend /\ ~sm'[h].pushThrew)]_vars

\* C30 witness: the push was called although, while the lookups were
\* awaited, the recipient registered and the activity the decision reads
\* became "reading this conversation".
C30_Witness_DispatchedAfterRecipientCameBack ==
    \E h \in DOMAIN sm :
        /\ sm[h].pc = "done" /\ sm[h].shouldSend /\ CallsBy(h) # {}
        /\ LiveConnectionsOf(sm[h].recipientId) # {}
        /\ ~ShouldSendNotification(sm[h].sock, sm[h].recipientId, sm[h].sender_id,
                                   sm[h].conversation_id)

\* C24, the read timestamp: a message's read_at goes from null to a value
\* only in the update of a markAsRead of its conversation whose reader is
\* not the message's sender.
C24_ReadAtSetOnlyByOtherReader ==
    [][\A i \in DOMAIN messages :
         (messages[i].read_at = 0 /\ messages'[i].read_at # 0)
         => \E h \in DOMAIN mr :
              /\ mr[h].pc = "update" /\ mr'[h].pc = "count"
              /\ mr[h].conversation_id = messages[i].conversation_id
              /\ mr[h].reader_id # messages[i].sender_id]_vars

\* ------------------------- claims on findOrCreateConversation, resumed
\* what every step keeps of the rows of conversations: their participants;
\* and their product context but for the update of an invocation that found
\* the row, was given a product id and saw another one stored
ConversationsKept ==
    \A i \in DOMAIN conversations :
        /\ conversations'[i].user1_id = conversations[i].user1_id
        /\ conversations'[i].user2_id = conversations[i].user2_id
        /\ conversations'[i].product_id # conversations[i].product_id
           => \E h \in DOMAIN fc :
                /\ fc[h].pc = "update" /\ fc'[h].pc = "done" /\ fc[h].existing = i
                /\ fc[h].product_id # NoProduct
                /\ conversations'[i].product_id = fc[h].product_id

\* an invocation whose lookup found a conversation creates none and, when
\* it has not met a store error, acknowledges once, with the id found
FoundIsReturned(h) ==
    fc[h].existing # 0
    => /\ fc[h].created = 0
       /\ (fc[h].pc = "done" /\ ~fc[h].storeError)
          => fc[h].acks = <<AckId(fc[h].existing)>>

\* C28: findOrCreateConversation on a pair that has a conversation creates
\* no row, never changes its participants, changes its product context only
\* when a product id is supplied and differs, and acknowledges once with its
\* id; on any store error it acknowledges once with error true.
C28_FoundReturnedAndErrorsAcked ==
    [][/\ ConversationsKept
       /\ \A h \in DOMAIN fc' :
            /\ FoundIsReturned(h)'
            /\ (fc'[h].pc = "done" /\ fc'[h].storeError) => fc'[h].acks = <<AckError>>]_vars

\* C28 holds for the errors of the lookup and of the insert: an error of
\* the product_id update is the one not acknowledged.
C28_ErrorsAckedButUpdate ==
    [][/\ ConversationsKept
       /\ \A h \in DOMAIN fc' :
            /\ FoundIsReturned(h)'
            /\ Len(fc'[h].acks) <= 1
            /\ (fc'[h].pc = "done" /\ fc'[h].storeError /\ fc'[h].existing = 0)
               => fc'[h].acks = <<AckError>>]_vars

\* Conversation router with deleteConversation: the store holds the
\* conversation of u1 and u2, live or soft-deleted by an earlier run (the
\* store outlives the server process); events arrive on one connection.
InitDelete ==
    /\ InitConnections
    /\ NoCatalog
    /\ weatherAlertsSent = <<>>
    /\ messages = <<>>
    /\ \E d \in {0, 1} :
         conversations = <<[user1_id |-> "u1", user2_id |-> "u2", product_id |-> NoProduct,
                            deleted_at |-> d]>>

NextDelete ==
    \/ \E s \in StoreSockets : Connect(s)
    \/ \E s \in StoreSockets, payload \in FindPayloads : FindOrCreateConversation(s, payload)
    \/ \E h \in 1..MaxFinds : FcFind(h)
    \/ \E h \in 1..MaxFinds : FcUpdate(h)
    \/ \E h \in 1..MaxFinds : FcInsert(h)
    \/ \E s \in StoreSockets, u \in UserIds : ClearOrDelete(s, "delete", 1, u)
    \/ \E h \in 1..MaxClears : CdFetch(h)
    \/ \E h \in 1..MaxClears : CdConversation(h)
    \/ \E h \in 1..MaxClears : CdMessages(h)

SpecDelete == InitDelete /\ [][NextDelete]_vars

\* the step in which invocation h acknowledges a conversation id
AckStep(h) ==
    /\ fc[h].acks = <<>> /\ fc'[h].acks # <<>>
    /\ ~fc'[h].acks[1].error

\* C29: findOrCreateConversation never acknowledges with the id of a
\* conversation that carries a soft-delete timestamp; asked for a pair whose
\* conversation has been deleted, it creates a conversation and returns it.
C29_NeverReturnsDeleted ==
    [][\A h \in DOMAIN fc : AckStep(h) =>
         LET id == fc'[h].acks[1].conversation_id
         IN  /\ conversations'[id].deleted_at = 0
             /\ fc[h].deletedAtCall # {} => id \notin fc[h].deletedAtCall]_vars

\* C29 on the second server: the id acknowledged is never one of a
\* conversation that carried a soft-delete timestamp when the handler was
\* called.
C29_Server2SkipsDeleted ==
    [][\A h \in DOMAIN fc : (server = 2 /\ AckStep(h)) =>
         fc'[h].acks[1].conversation_id \notin fc[h].deletedAtCall]_vars

\* ------------------------------ claims on delivery and the presence snapshot
\* the direct-delivery step of invocation h reached connection s: s received
\* an emit beyond the one it gets as a member of the conversation room
DirectlyDelivered(h, s) ==
    recv'[sm[h].msg][s] - recv[sm[h].msg][s]
      > (IF s \in RoomMembers(sm[h].conversation_id) THEN 1 ELSE 0)

\* C31: delivery and decision are one step of the handler, and in it the
\* recipient has an entry in the presence map (the decision sees the
\* recipient online) if and only if the direct-delivery step delivered the
\* message to at least one connection, whatever registrations and
\* disconnects ran while the handler awaited the store.
C31_OnlineIffDirectlyDelivered ==
    [][\A h \in DOMAIN sm :
         (DecisionStep(h) /\ sm'[h].recipientId # sm[h].sender_id)
         => (MapHas(userSocketMap, sm'[h].recipientId)
               <=> \E s \in Sockets : DirectlyDelivered(h, s))]_vars

\* C31 holds when every connection id in the recipient's set is a live
\* connection: no id left behind by a connection that registered twice.
C31_OnlineIffDeliveredWhenSetIsLive ==
    [][\A h \in DOMAIN sm :
         (/\ DecisionStep(h) /\ sm'[h].recipientId # sm[h].sender_id
          /\ \A s \in GetOrNewSet(userSocketMap, sm'[h].recipientId) :
                sockStatus[s] = "connected")
         => (MapHas(userSocketMap, sm'[h].recipientId)
               <=> \E s \in GetOrNewSet(userSocketMap, sm'[h].recipientId) :
                      DirectlyDelivered(h, s))]_vars

\* ------------------------------------------------- claims on the disconnect
\* the step that handles the disconnect event of connection s
DisconnectStep(s) == sockStatus[s] = "connected" /\ sockStatus'[s] = "closed"

\* the keys whose connection set in presence map m holds connection s
EntriesHolding(m, s) == {k \in DOMAIN m : s \in m[k]}

\* C32: once the disconnect of a connection has been handled, its id is in
\* no connection set of the presence map, whatever it registered before; the
\* disconnect of a connection no registration of which took effect leaves the
\* map unchanged and emits no online-status.
C32_DisconnectedInNoSet ==
    [][\A s \in Sockets : DisconnectStep(s) =>
         /\ EntriesHolding(userSocketMap', s) = {}
         /\ EntriesHolding(userSocketMap, s) = {}
            => (UNCHANGED userSocketMap /\ lastEvent'.online = <<>>)]_vars

\* C32 holds for a connection that is in no set other than the one of the
\* user id it remembers, a non-empty one.
C32_RemovedFromRememberedOwner ==
    [][\A s \in Sockets : DisconnectStep(s) =>
         /\ (\A k \in EntriesHolding(userSocketMap, s) :
                k = sockUserId[s] /\ ~Falsy(k))
            => EntriesHolding(userSocketMap', s) = {}
         /\ EntriesHolding(userSocketMap, s) = {}
            => (UNCHANGED userSocketMap /\ lastEvent'.online = <<>>)]_vars

\* ------------------------------------------- claims on the markAsRead update
\* Two conversations between u1 and u2 are in the store, with up to
\* MaxMarkMessages unread messages over them.
InitMark ==
    /\ InitConnections
    /\ NoCatalog
    /\ weatherAlertsSent = <<>>
    /\ conversations = [c \in 1..2 |-> [user1_id |-> "u1", user2_id |-> "u2",
                                        product_id |-> 0, deleted_at |-> 0]]
    /\ messages \in UNION {[1..n -> [conversation_id : {1, 2}, sender_id : UserIds,
                                     content : {"Hello"}, read_at : {0},
                                     deleted_at : {0}]] : n \in 0..MaxMarkMessages}

\* markAsRead handlers over that store, their events arriving on one
\* connection.
NextMark ==
    \/ \E s \in StoreSockets : Connect(s)
    \/ \E s \in StoreSockets, c \in 1..(Len(conversations) + 1), r \in UserIds :
         MarkAsRead(s, c, r)
    \/ \E h \in 1..MaxReads : MrUpdate(h)
    \/ \E h \in 1..MaxReads : MrCount(h)

SpecMark == InitMark /\ [][NextMark]_vars

\* the step in which the update of invocation h is applied by the store
UpdateStep(h) == mr[h].pc = "update" /\ mr'[h].pc = "count"

\* C33: the update of markAsRead(conversation, reader) sets the read
\* timestamp, to the time of the call, of exactly the messages of that
\* conversation authored by someone other than the reader and unread, and
\* leaves every other message as it was; no other step of a markAsRead
\* changes a message.
C33_MarkAsReadUpdatesExactlyUnreadOfOthers ==
    [][/\ DOMAIN messages' = DOMAIN messages
       /\ \A h \in DOMAIN mr : UpdateStep(h) =>
            \A i \in DOMAIN messages :
               IF /\ messages[i].conversation_id = mr[h].conversation_id
                  /\ messages[i].sender_id # mr[h].reader_id
                  /\ messages[i].read_at = 0
               THEN /\ messages'[i] = [messages[i] EXCEPT !.read_at = mr[h].now]
                    /\ messages'[i].read_at # 0
               ELSE messages'[i] = messages[i]
       /\ (\A h \in DOMAIN mr : ~UpdateStep(h)) => messages' = messages]_vars

\* C33 witness: the first markAsRead of conversation 1 by u1 stamped the one
\* unread message of u2 there and left u1's own message and a message of
\* conversation 2 unread; a second one found that message read and left all
\* three as they were.
C33_Witness_OneStampedThreeKinds ==
    /\ Len(mr) = 2 /\ Len(messages) = 3
    /\ \A h \in {1, 2} : /\ mr[h].conversation_id = 1 /\ mr[h].reader_id = "u1"
                         /\ mr[h].pc = "done"
    /\ mr[1].updated = {1} /\ mr[2].updated = {}
    /\ messages[1] = [conversation_id |-> 1, sender_id |-> "u2", content |-> "Hello",
                      read_at |-> 1, deleted_at |-> 0]
    /\ messages[2] = [conversation_id |-> 1, sender_id |-> "u1", content |-> "Hello",
                      read_at |-> 0, deleted_at |-> 0]
    /\ messages[3] = [conversation_id |-> 2, sender_id |-> "u2", content |-> "Hello",
                      read_at |-> 0, deleted_at |-> 0]

\* ------------------------------------------- claims on the alert-sent log
\* the step in which the insert of recordWeatherAlertSent returns to
\* invocation h
RecordStep(h) == wa[h].pc = "record" /\ wa'[h].pc = "done"

\* the alert-sent rows appended by invocation h
RowsBy(h) == {i \in DOMAIN weatherAlertsSent : weatherAlertsSent[i].by = h}

\* C34: whatever the insert of the alert-sent row comes to, sendWeatherAlert
\* returns the result sendNotificationToUser gave it, a successful one with
\* its counts; when the insert failed the log is left as it was.
C34_RecordFailureNotPropagated ==
    [][\A h \in DOMAIN wa : RecordStep(h) =>
         /\ wa[h].result.success
         /\ wa'[h].result = wa[h].result
         /\ \/ RowsBy(h)' # {}
            \/ weatherAlertsSent' = weatherAlertsSent]_vars

\* C34 witness: a call pushed to two tokens, one send fulfilled, and has
\* returned that result, success with sent 1 and failed 1, while no row of
\* it is in the log.
C34_Witness_SentButNotLogged ==
    \E h \in DOMAIN wa :
        /\ wa[h].pc = "done"
        /\ wa[h].result = [success |-> TRUE, sent |-> 1, failed |-> 1, total |-> 2]
        /\ RowsBy(h) = {}
        /\ \E p \in pushSends : p.by = h /\ p.fulfilled

====
